---- MODULE Spec2Model ----
(***************************************************************************)
(* A model of sdt (sudoscientific doc tool), src/sdt/main.py: the store    *)
(* persisted in sdt.json and the commands init, add, ls, rm, check and     *)
(* update that read and rewrite it.                                        *)
(*                                                                         *)
(* Strings are modelled as sequences: a document name or an id is the      *)
(* sequence of its characters, a path string is the sequence of its        *)
(* "/"-separated components (an absolute path starts with the component    *)
(* "/").                                                                   *)
(***************************************************************************)
EXTENDS Integers, Sequences, FiniteSets, TLC

VARIABLES fileExists, isRepo, entries, now, last, tree

vars == <<fileExists, isRepo, entries, now, last, tree>>

(***************************************************************************)
(* Bounds of the model.                                                    *)
(***************************************************************************)
\* datetime.now() takes the values 0..MaxTime
MaxTime == 1
\* the history provider finds 0..MaxCommits qualifying commits for an entry
MaxCommits == 11

(***************************************************************************)
(* str methods used on the document name.                                  *)
(***************************************************************************)
Whitespace == {" ", "\t"}

LowerChar(c) == CASE c = "D" -> "d" [] c = "N" -> "n" [] OTHER -> c

\* str.lower()
lower(s) == [i \in 1..Len(s) |-> LowerChar(s[i])]

\* str.replace(old, "") for a one-character old
replace(s, old) == SelectSeq(s, LAMBDA c : c # old)

RECURSIVE lstrip(_)
lstrip(s) == IF s # <<>> /\ Head(s) \in Whitespace THEN lstrip(Tail(s)) ELSE s

RECURSIVE rstrip(_)
rstrip(s) ==
    IF s # <<>> /\ s[Len(s)] \in Whitespace
    THEN rstrip(SubSeq(s, 1, Len(s) - 1))
    ELSE s

\* str.strip()
strip(s) == rstrip(lstrip(s))

\* id = doc.lower().replace(" ", "")
MakeId(doc) == replace(lower(doc), " ")

(***************************************************************************)
(* pathlib.                                                                *)
(***************************************************************************)
\* the working directory of the process
Cwd == <<"/", "w">>

\* Path(s): "." components are dropped
Path(s) == SelectSeq(s, LAMBDA c : c # ".")

\* Path.as_posix(): the empty path prints as "."
as_posix(p) == IF p = <<>> THEN <<".">> ELSE p

is_absolute(p) == p # <<>> /\ Head(p) = "/"

RECURSIVE Collapse(_, _)
Collapse(done, rest) ==
    IF rest = <<>> THEN done
    ELSE IF Head(rest) = ".."
         THEN Collapse(IF Len(done) > 1 THEN SubSeq(done, 1, Len(done) - 1) ELSE done,
                       Tail(rest))
         ELSE Collapse(Append(done, Head(rest)), Tail(rest))

\* Path.resolve(): absolute, ".." collapsed (the modelled tree has no symlinks)
resolve(p) == Collapse(<<>>, IF is_absolute(p) THEN p ELSE Cwd \o p)

IsPrefix(a, b) == Len(a) <= Len(b) /\ SubSeq(b, 1, Len(a)) = a

\* PurePath.is_relative_to(other): lexical, on the parts as written
is_relative_to(p, other) == is_absolute(p) = is_absolute(other) /\ IsPrefix(other, p)

(***************************************************************************)
(* Timestamps and the state file.                                          *)
(***************************************************************************)
\* datetime.now(): a datetime object
datetime_now(t) == <<"datetime", t>>

\* str(x), the default= of json.dump: a datetime becomes its text, which is
\* what every later json.load returns
str(x) == IF x[1] = "datetime" THEN <<"str", x[2]>> ELSE x

\* custom_dump(data, fp): the mapping as json.load reads it back
custom_dump(data) == [k \in DOMAIN data |-> [data[k] EXCEPT !.updated = str(@)]]

(***************************************************************************)
(* Messages of the commands (the spec's name for each error).              *)
(***************************************************************************)
NotARepository == "Parent directory is not a git repository"
StoreNotFound == "sdt.json file not found, please generate one using sdt init"
AlreadyInitialized == "sdt.json already exists"
EmptyStore == "No entries found, add some with sdt add"
DuplicateEntry == "Entry already made"
OverlappingPath == "Path overlaps with an existing path for this document"
EntryNotFound == "Entry not present in sdt.json"
NoPathsToRemove == "No paths, please run rm without the --path flag"
PathNotInEntry == "Path not in entry"
EntryHasPaths == "Cannot remove a document with paths"

\* the outcome of a command: the state file after it, the exit code, the
\* panel printed, whether sdt.json was opened for writing, the table printed
Outcome(file, ents, code, out, wrote, report) ==
    [file |-> file, entries |-> ents, code |-> code, out |-> out,
     wrote |-> wrote, report |-> report]

\* sdt_error(text): print the panel and exit 1; the state file is as it was
sdt_error(text, file, ents) == Outcome(file, ents, 1, text, FALSE, <<>>)

(***************************************************************************)
(* init                                                                    *)
(***************************************************************************)
\* a mutation of init: an existing sdt.json is not looked for
init_overwrites(file, ents, repo) ==
    IF ~repo THEN sdt_error(NotARepository, file, ents)
    ELSE Outcome(TRUE, custom_dump(<<>>), 0, "sdt.json generated", TRUE, <<>>)

init(file, ents, repo) ==
    IF file THEN sdt_error(AlreadyInitialized, file, ents)
    ELSE IF ~repo THEN sdt_error(NotARepository, file, ents)
    ELSE Outcome(TRUE, custom_dump(<<>>), 0, "sdt.json generated", TRUE, <<>>)

(***************************************************************************)
(* add                                                                     *)
(***************************************************************************)
\* the loop of add over the paths of the entry: the first error met, or "" 
RECURSIVE AddLoop(_, _)
AddLoop(path, others) ==
    IF others = <<>> THEN ""
    ELSE LET other_path == Path(Head(others)) IN
         IF resolve(path) = resolve(other_path) THEN DuplicateEntry
         ELSE IF is_relative_to(path, other_path) \/ is_relative_to(other_path, path)
              THEN OverlappingPath
              ELSE AddLoop(path, Tail(others))

\* a mutation of add_path: the supplied name replaces the stored one
add_path_renames(file, ents, id, doc, path) ==
    LET err == AddLoop(path, ents[id].paths) IN
    IF err # "" THEN sdt_error(err, file, ents)
    ELSE Outcome(file,
                 custom_dump([ents EXCEPT ![id].paths = Append(@, as_posix(path)),
                                          ![id].document_name = strip(doc)]),
                 0, "Path added to entry", TRUE, <<>>)

\* a mutation of add_path: the path is appended without the loop
add_path_unchecked(file, ents, id, doc, path) ==
    Outcome(file,
            custom_dump([ents EXCEPT ![id].paths = Append(@, as_posix(path))]),
            0, "Path added to entry", TRUE, <<>>)

\* the branch of add for an id that is in the store
add_path(file, ents, id, doc, path) ==
    LET err == AddLoop(path, ents[id].paths) IN
    IF err # "" THEN sdt_error(err, file, ents)
    ELSE Outcome(file,
                 custom_dump([ents EXCEPT ![id].paths = Append(@, as_posix(path))]),
                 0, "Path added to entry", TRUE, <<>>)

add(file, ents, t, doc, arg) ==
    IF ~file THEN sdt_error(StoreNotFound, file, ents)
    ELSE LET path == Path(arg)
             path_str == as_posix(path)
             id == MakeId(doc)
         IN  IF id \in DOMAIN ents
             THEN add_path(file, ents, id, doc, path)
             ELSE Outcome(file,
                          custom_dump((id :> [document_name |-> strip(doc),
                                              paths |-> <<path_str>>,
                                              updated |-> datetime_now(t)]) @@ ents),
                          0, "Entry made", TRUE, <<>>)

(***************************************************************************)
(* ls                                                                      *)
(***************************************************************************)
\* a mutation of ls: check_for_file is not called
ls_no_file_test(file, ents) ==
    IF ents = <<>> THEN sdt_error(EmptyStore, file, ents)
    ELSE Outcome(file, ents, 0, "Entries", FALSE, ents)

\* a mutation of ls: the entries without paths get no row
ls_hides_empty(file, ents) ==
    IF ~file THEN sdt_error(StoreNotFound, file, ents)
    ELSE IF ents = <<>> THEN sdt_error(EmptyStore, file, ents)
    ELSE Outcome(file, ents, 0, "Entries", FALSE,
                 [k \in {i \in DOMAIN ents : ents[i].paths # <<>>} |-> ents[k]])

ls(file, ents) ==
    IF ~file THEN sdt_error(StoreNotFound, file, ents)
    ELSE IF ents = <<>> THEN sdt_error(EmptyStore, file, ents)
    ELSE Outcome(file, ents, 0, "Entries", FALSE, ents)

(***************************************************************************)
(* rm                                                                      *)
(***************************************************************************)
\* a mutation of remove: the last element goes, as list.pop() does
remove_pops(list, x) == SubSeq(list, 1, Len(list) - 1)

\* list.remove(x): the first occurrence of x goes (x is in the list)
RECURSIVE remove(_, _)
remove(list, x) ==
    IF list = <<>> THEN <<>>
    ELSE IF Head(list) = x THEN Tail(list)
    ELSE <<Head(list)>> \o remove(Tail(list), x)

Range(list) == {list[i] : i \in 1..Len(list)}

\* an absent --path is the empty argument
NoPath == <<>>

\* a mutation of rm_path: the empty list is not told apart
rm_path_no_empty_test(file, ents, id, arg) ==
    LET entry == ents[id]
        path_str == as_posix(Path(arg))
    IN  IF path_str \in Range(entry.paths)
        THEN Outcome(file,
                     custom_dump([ents EXCEPT ![id].paths = remove(@, path_str)]),
                     0, "Path deleted", TRUE, <<>>)
        ELSE sdt_error(PathNotInEntry, file, ents)

\* the branch of rm with --path
rm_path(file, ents, id, arg) ==
    LET entry == ents[id]
        path_str == as_posix(Path(arg))
    IN  IF path_str \in Range(entry.paths)
        THEN Outcome(file,
                     custom_dump([ents EXCEPT ![id].paths = remove(@, path_str)]),
                     0, "Path deleted", TRUE, <<>>)
        ELSE IF Len(entry.paths) = 0
             THEN sdt_error(NoPathsToRemove, file, ents)
             ELSE sdt_error(PathNotInEntry, file, ents)

\* a mutation of rm_entry: the entry is popped and the file written before
\* the paths are looked at
rm_entry_pops_first(file, ents, id) ==
    LET popped == custom_dump([k \in DOMAIN ents \ {id} |-> ents[k]]) IN
    IF Len(ents[id].paths) > 0
    THEN Outcome(file, popped, 1, EntryHasPaths, TRUE, <<>>)
    ELSE Outcome(file, popped, 0, "Entry deleted", TRUE, <<>>)

\* a mutation of rm_entry: the entry is deleted whatever paths it holds
rm_entry_unchecked(file, ents, id) ==
    Outcome(file, custom_dump([k \in DOMAIN ents \ {id} |-> ents[k]]),
            0, "Entry deleted", TRUE, <<>>)

\* the branch of rm without --path
rm_entry(file, ents, id) ==
    IF Len(ents[id].paths) > 0 THEN sdt_error(EntryHasPaths, file, ents)
    ELSE Outcome(file,
                 custom_dump([k \in DOMAIN ents \ {id} |-> ents[k]]),
                 0, "Entry deleted", TRUE, <<>>)

rm(file, ents, id, arg) ==
    IF ~file THEN sdt_error(StoreNotFound, file, ents)
    ELSE IF id \notin DOMAIN ents THEN sdt_error(EntryNotFound, file, ents)
    ELSE IF arg # NoPath THEN rm_path(file, ents, id, arg)
    ELSE rm_entry(file, ents, id)

(***************************************************************************)
(* update                                                                  *)
(***************************************************************************)
\* a mutation of update: the empty store is not told apart
update_no_empty_test(file, ents, t, id) ==
    IF ~file THEN sdt_error(StoreNotFound, file, ents)
    ELSE IF id \notin DOMAIN ents THEN sdt_error(EntryNotFound, file, ents)
    ELSE Outcome(file,
                 custom_dump([ents EXCEPT ![id].updated = datetime_now(t)]),
                 0, "updated", TRUE, <<>>)

\* a mutation of update: every entry is stamped
update_all(file, ents, t, id) ==
    IF ~file THEN sdt_error(StoreNotFound, file, ents)
    ELSE IF ents = <<>> THEN sdt_error(EmptyStore, file, ents)
    ELSE IF id \notin DOMAIN ents THEN sdt_error(EntryNotFound, file, ents)
    ELSE Outcome(file,
                 custom_dump([k \in DOMAIN ents |->
                                 [ents[k] EXCEPT !.updated = datetime_now(t)]]),
                 0, "updated", TRUE, <<>>)

update(file, ents, t, id) ==
    IF ~file THEN sdt_error(StoreNotFound, file, ents)
    ELSE IF ents = <<>> THEN sdt_error(EmptyStore, file, ents)
    ELSE IF id \notin DOMAIN ents THEN sdt_error(EntryNotFound, file, ents)
    ELSE Outcome(file,
                 custom_dump([ents EXCEPT ![id].updated = datetime_now(t)]),
                 0, "updated", TRUE, <<>>)

(***************************************************************************)
(* check                                                                   *)
(***************************************************************************)
\* max_count= of repo.iter_commits
max_count == 10

\* a mutation of iter_commits: max_count is not applied
iter_commits_uncapped(n, cap) == n

\* len(list(repo.iter_commits(paths, since, max_count))) when the history
\* holds n commits that touch the paths since the timestamp
iter_commits(n, cap) == IF n < cap THEN n ELSE cap

cell_style(commits) ==
    IF commits = 10 THEN "on magenta"
    ELSE IF commits >= 5 THEN "on gold1 black"
    ELSE "on green4"

CodePoint(c) ==
    CASE c = "\t" -> 9 [] c = " " -> 32 [] c = "D" -> 68 [] c = "N" -> 78
      [] c = "d" -> 100 [] c = "n" -> 110 [] OTHER -> 0

\* a < b for str
RECURSIVE StrLess(_, _)
StrLess(a, b) ==
    IF b = <<>> THEN FALSE
    ELSE IF a = <<>> THEN TRUE
    ELSE IF Head(a) # Head(b) THEN CodePoint(Head(a)) < CodePoint(Head(b))
    ELSE StrLess(Tail(a), Tail(b))

\* the keys of the loaded mapping in iteration order: json.dump wrote them
\* with sort_keys=True
RECURSIVE sorted(_)
sorted(keys) ==
    IF keys = {} THEN <<>>
    ELSE LET first == CHOOSE k \in keys : \A o \in keys \ {k} : StrLess(k, o)
         IN  <<first>> \o sorted(keys \ {first})

\* a mutation of CheckLoop: an entry without paths is skipped
RECURSIVE CheckLoop_skips(_, _, _, _, _)
CheckLoop_skips(keys, file, ents, h, table) ==
    IF keys = <<>> THEN Outcome(file, ents, 0, "Entries", FALSE, table)
    ELSE LET key == Head(keys)
             values == ents[key]
         IN  IF Len(values.paths) = 0
             THEN CheckLoop_skips(Tail(keys), file, ents, h, table)
             ELSE LET commits == iter_commits(h[key], max_count) IN
                  CheckLoop_skips(Tail(keys), file, ents, h,
                            Append(table, [id |-> key,
                                           document_name |-> values.document_name,
                                           paths |-> values.paths,
                                           updated |-> values.updated,
                                           commits |-> commits,
                                           style |-> cell_style(commits)]))

\* the loop of check over entries.items(); h[key] is the number of commits
\* the history holds for the entry
RECURSIVE CheckLoop(_, _, _, _, _)
CheckLoop(keys, file, ents, h, table) ==
    IF keys = <<>> THEN Outcome(file, ents, 0, "Entries", FALSE, table)
    ELSE LET key == Head(keys)
             values == ents[key]
         IN  IF Len(values.paths) = 0 THEN sdt_error(EmptyStore, file, ents)
             ELSE LET commits == iter_commits(h[key], max_count) IN
                  CheckLoop(Tail(keys), file, ents, h,
                            Append(table, [id |-> key,
                                           document_name |-> values.document_name,
                                           paths |-> values.paths,
                                           updated |-> values.updated,
                                           commits |-> commits,
                                           style |-> cell_style(commits)]))

check(file, ents, h) ==
    IF ~file THEN sdt_error(StoreNotFound, file, ents)
    ELSE IF ents = <<>> THEN sdt_error(EmptyStore, file, ents)
    ELSE CheckLoop(sorted(DOMAIN ents), file, ents, h, <<>>)

(***************************************************************************)
(* The arguments given on the command line.                                *)
(***************************************************************************)
\* the files and directories of the working directory, resolved
Tree == { <<"/", "w", "file.txt">>, <<"/", "w", "sub_dir">>,
          <<"/", "w", "sub_dir", "file.txt">> }

\* exists=True of a typer path parameter: the path names something in fs
exists(fs, arg) == resolve(Path(arg)) \in fs

BadParameter == "Invalid value: Path does not exist"

\* typer rejects the command line: exit 2, the command is not run
bad_parameter(file, ents) == Outcome(file, ents, 2, BadParameter, FALSE, <<>>)

\* sdt add DOC PATH
add_command(fs, file, ents, t, doc, arg) ==
    IF exists(fs, arg) THEN add(file, ents, t, doc, arg)
    ELSE bad_parameter(file, ents)

\* sdt rm ID [--path PATH]
rm_command(fs, file, ents, id, arg) ==
    IF arg = NoPath \/ exists(fs, arg) THEN rm(file, ents, id, arg)
    ELSE bad_parameter(file, ents)

\* "D N ", "dn" and a tab
DocNames == { <<"D", " ", "N", " ">>, <<"d", "n">>, <<"\t">> }

\* ./file.txt, sub_dir, sub_dir/file.txt and /w/sub_dir/file.txt, given in
\* the working directory /w
PathArgs ==
    { <<".", "file.txt">>, <<"sub_dir">>, <<"sub_dir", "file.txt">>,
      <<"/", "w", "sub_dir", "file.txt">> }

Ids == {MakeId(d) : d \in DocNames}

\* the commit counts of the history tried by the commands of Spec
SampleCounts == {0, max_count \div 2, MaxCommits}

(***************************************************************************)
(* The state machine: one command at a time, each on the state file the    *)
(* previous one left.                                                      *)
(***************************************************************************)
NoCommand ==
    [cmd |-> "none", doc |-> <<>>, path |-> NoPath, code |-> 0, out |-> "",
     wrote |-> FALSE, report |-> <<>>]

Init ==
    /\ fileExists = FALSE
    /\ isRepo \in BOOLEAN
    /\ entries = <<>>
    /\ now = 0
    /\ last = NoCommand
    /\ tree = Tree

\* what the command line and the outcome r of the command leave to see
Ran(cmd, doc, path, r) ==
    [cmd |-> cmd, doc |-> doc, path |-> path, code |-> r.code, out |-> r.out,
     wrote |-> r.wrote, report |-> r.report]

SdtInit ==
    \E r \in {init(fileExists, entries, isRepo)} :
        /\ fileExists' = r.file
        /\ entries' = r.entries
        /\ last' = Ran("init", <<>>, NoPath, r)
        /\ UNCHANGED <<isRepo, now, tree>>

SdtAdd ==
    \E doc \in DocNames, arg \in PathArgs :
        \E r \in {add_command(tree, fileExists, entries, now, doc, arg)} :
            /\ fileExists' = r.file
            /\ entries' = r.entries
            /\ last' = Ran("add", doc, arg, r)
            /\ UNCHANGED <<isRepo, now, tree>>

SdtLs ==
    \E r \in {ls(fileExists, entries)} :
        /\ fileExists' = r.file
        /\ entries' = r.entries
        /\ last' = Ran("ls", <<>>, NoPath, r)
        /\ UNCHANGED <<isRepo, now, tree>>

SdtRm ==
    \E id \in Ids, arg \in PathArgs \cup {NoPath} :
        \E r \in {rm_command(tree, fileExists, entries, id, arg)} :
            /\ fileExists' = r.file
            /\ entries' = r.entries
            /\ last' = Ran("rm", id, arg, r)
            /\ UNCHANGED <<isRepo, now, tree>>

\* counts: the numbers of commits the history may hold for an entry
SdtCheck(counts) ==
    \E h \in [DOMAIN entries -> counts] :
        \E r \in {check(fileExists, entries, h)} :
            /\ fileExists' = r.file
            /\ entries' = r.entries
            /\ last' = Ran("check", <<>>, NoPath, r)
            /\ UNCHANGED <<isRepo, now, tree>>

SdtUpdate ==
    \E id \in Ids :
        \E r \in {update(fileExists, entries, now, id)} :
            /\ fileExists' = r.file
            /\ entries' = r.entries
            /\ last' = Ran("update", id, NoPath, r)
            /\ UNCHANGED <<isRepo, now, tree>>

\* git init in the working directory
GitInit ==
    /\ ~isRepo
    /\ isRepo' = TRUE
    /\ UNCHANGED <<fileExists, entries, now, last, tree>>

\* time passes between two commands
Tick ==
    /\ now < MaxTime
    /\ now' = now + 1
    /\ UNCHANGED <<fileExists, isRepo, entries, last, tree>>

Next ==
    \/ SdtInit
    \/ SdtAdd
    \/ SdtLs
    \/ SdtRm
    \/ SdtCheck(SampleCounts)
    \/ SdtUpdate
    \/ GitInit
    \/ Tick

Spec == Init /\ [][Next]_vars

(***************************************************************************)
(* The same commands in a working directory where file.txt gets deleted.   *)
(***************************************************************************)
\* rm file.txt in the shell
Unlink ==
    /\ <<"/", "w", "file.txt">> \in tree
    /\ tree' = tree \ {<<"/", "w", "file.txt">>}
    /\ UNCHANGED <<fileExists, isRepo, entries, now, last>>

NextFs ==
    \/ SdtInit
    \/ SdtAdd
    \/ SdtLs
    \/ SdtRm
    \/ SdtCheck(SampleCounts)
    \/ SdtUpdate
    \/ GitInit
    \/ Tick
    \/ Unlink

SpecFs == Init /\ [][NextFs]_vars

(***************************************************************************)
(* check alone, on stores that two adds build, with every count the        *)
(* history can hold.                                                       *)
(***************************************************************************)
AddedTo(stores) ==
    {add(TRUE, ents, 0, doc, arg).entries :
        ents \in stores, doc \in DocNames, arg \in PathArgs}

CheckStores == AddedTo({<<>>}) \cup AddedTo(AddedTo({<<>>}))

InitCheck ==
    /\ fileExists = TRUE
    /\ isRepo = TRUE
    /\ entries \in CheckStores
    /\ now = 0
    /\ last = NoCommand
    /\ tree = Tree

NextCheck == SdtCheck(0..MaxCommits)

SpecCheck == InitCheck /\ [][NextCheck]_vars

(***************************************************************************)
(* Properties.                                                             *)
(***************************************************************************)
\* a step of the command cmd: the clock and the repository stay, last' is
\* the command and its outcome, the unprimed variables the state before it
CommandStep(cmd) == now' = now /\ isRepo' = isRepo /\ last'.cmd = cmd

\* the canonical form of a stored path string
Canonical(path_str) == resolve(Path(path_str))

\* C1: in every entry, no two distinct paths are canonically equal and none
\* is a canonical ancestor of another.
C1_NoCanonicalOverlap ==
    \A id \in DOMAIN entries :
        LET paths == entries[id].paths IN
        \A i, j \in 1..Len(paths) :
            i # j => ~IsPrefix(Canonical(paths[i]), Canonical(paths[j]))

\* the normalisation the spec describes: lower case, all whitespace removed
normalize(name) == SelectSeq(lower(name), LAMBDA c : c \notin Whitespace)

\* C2: the key of every entry is normalize(document_name).
C2_IdIsNormalizedName ==
    \A id \in DOMAIN entries : id = normalize(entries[id].document_name)

\* C3: a command that exits 1 leaves the state file as it was (existence and
\* content) and has not opened it for writing.
C3_ErrorLeavesStateFile ==
    [][(\E cmd \in {"init", "add", "ls", "rm", "check", "update"} : CommandStep(cmd))
       /\ last'.code = 1
       => /\ fileExists' = fileExists
          /\ entries' = entries
          /\ ~last'.wrote]_vars

C3_Witness ==
    /\ last.cmd = "rm"
    /\ last.code = 1
    /\ last.out = PathNotInEntry
    /\ Cardinality(DOMAIN entries) = 2

\* C4: add of a path whose canonical form equals that of a path of the
\* entry fails with DuplicateEntry and leaves the store unchanged.
C4_DuplicateEntry ==
    [][CommandStep("add") /\ fileExists
       /\ MakeId(last'.doc) \in DOMAIN entries
       /\ (\E q \in Range(entries[MakeId(last'.doc)].paths) :
              Canonical(q) = resolve(Path(last'.path)))
       => /\ last'.code = 1
          /\ last'.out = DuplicateEntry
          /\ entries' = entries]_vars

\* C5: rm(id) without a path deletes the entry when its paths are empty and
\* fails with EntryHasPaths, store unchanged, when they are not; an entry
\* leaves the store only in a step from a state where its paths were empty.
C5_DeleteOnlyWhenEmpty ==
    [][\A id \in DOMAIN entries :
          /\ CommandStep("rm") /\ last'.doc = id /\ last'.path = NoPath
             => IF entries[id].paths = <<>>
                THEN last'.code = 0 /\ DOMAIN entries' = DOMAIN entries \ {id}
                ELSE last'.code = 1 /\ last'.out = EntryHasPaths /\ entries' = entries
          /\ id \notin DOMAIN entries'
             => entries[id].paths = <<>> /\ CommandStep("rm") /\ last'.doc = id]_vars

C5_Witness ==
    /\ last.cmd = "rm"
    /\ last.path = NoPath
    /\ last.code = 0
    /\ last.doc \notin DOMAIN entries
    /\ entries # <<>>

\* C6: rm(id, path) whose string form is in the entry's paths removes that
\* string and nothing else: the other paths keep their order, the entry
\* stays, every other field and entry is as before.
C6_RmPathFrame ==
    [][CommandStep("rm") /\ last'.path # NoPath
       /\ last'.doc \in DOMAIN entries
       /\ as_posix(Path(last'.path)) \in Range(entries[last'.doc].paths)
       => /\ last'.code = 0
          /\ entries' = [entries EXCEPT ![last'.doc].paths =
                            SelectSeq(@, LAMBDA q : q # as_posix(Path(last'.path)))]
          /\ Len(entries'[last'.doc].paths) = Len(entries[last'.doc].paths) - 1]_vars

C6_Witness ==
    /\ last.cmd = "rm"
    /\ last.path # NoPath
    /\ last.code = 0
    /\ Cardinality(DOMAIN entries) = 2
    /\ Len(entries[last.doc].paths) = 2
    /\ as_posix(Path(last.path)) \notin Range(entries[last.doc].paths)

\* C7 as claimed: update(id) fails with EntryNotFound whenever id is not a
\* key of the store, the store with zero entries included.
C7_UpdateEntryNotFound ==
    [][CommandStep("update") /\ fileExists /\ last'.doc \notin DOMAIN entries
       => last'.code = 1 /\ last'.out = EntryNotFound]_vars

\* C7 as amended: update(id) on an id that is not a key of the store exits 1
\* and leaves the store unchanged, with EntryNotFound when the store has an
\* entry and with the "No entries found" message when it has none.
C7_UpdateMissingId ==
    [][CommandStep("update") /\ fileExists /\ last'.doc \notin DOMAIN entries
       => /\ last'.code = 1
          /\ last'.out = (IF DOMAIN entries = {} THEN EmptyStore ELSE EntryNotFound)
          /\ entries' = entries]_vars

C7_Witness ==
    /\ last.cmd = "update"
    /\ last.code = 1
    /\ last.out = EntryNotFound
    /\ fileExists
    /\ DOMAIN entries # {}
    /\ last.doc \notin DOMAIN entries

\* C8: update(id) on an id of the store sets that entry's updated to the
\* current time and changes nothing else in the store.
C8_UpdateFrame ==
    [][CommandStep("update") /\ last'.doc \in DOMAIN entries
       => /\ last'.code = 0
          /\ entries' = [entries EXCEPT ![last'.doc].updated = <<"str", now>>]]_vars

C8_Witness ==
    /\ last.cmd = "update"
    /\ last.code = 0
    /\ entries[last.doc].updated = <<"str", MaxTime>>
    /\ \E other \in DOMAIN entries \ {last.doc} :
          /\ entries[other].updated = <<"str", 0>>
          /\ Len(entries[other].paths) = 2

\* C9: a successful add on an id of the store appends the path's string
\* form as the last path of that entry and changes nothing else: not the
\* entry's updated, not its document_name, not the other entries.
C9_AddExistingFrame ==
    [][CommandStep("add") /\ MakeId(last'.doc) \in DOMAIN entries /\ last'.code = 0
       => entries' = [entries EXCEPT ![MakeId(last'.doc)].paths =
                         Append(@, as_posix(Path(last'.path)))]]_vars

C9_Witness ==
    /\ last.cmd = "add"
    /\ last.code = 0
    /\ last.out = "Path added to entry"
    /\ strip(last.doc) # entries[MakeId(last.doc)].document_name
    /\ entries[MakeId(last.doc)].updated = <<"str", 0>>
    /\ now = MaxTime
    /\ Len(entries[MakeId(last.doc)].paths) = 3
    /\ Cardinality(DOMAIN entries) = 2

\* C10: every row of check's report has a commit count in 0..10 and the one
\* tier of its count: 10 the highest, 5..9 the medium, 0..4 the low.
C10_SeverityTiers ==
    last.cmd = "check" /\ last.code = 0
    => /\ Len(last.report) = Cardinality(DOMAIN entries)
       /\ \A i \in 1..Len(last.report) :
             LET row == last.report[i] IN
             /\ row.commits \in 0..10
             /\ row.commits = 10 => row.style = "on magenta"
             /\ (5 <= row.commits /\ row.commits < 10) => row.style = "on gold1 black"
             /\ row.commits < 5 => row.style = "on green4"

C10_Witness ==
    /\ last.cmd = "check"
    /\ last.code = 0
    /\ Len(last.report) = 2
    /\ last.report[1].commits = 10 /\ last.report[1].style = "on magenta"
    /\ last.report[2].commits = 5 /\ last.report[2].style = "on gold1 black"

\* C11: check on a store with an entry without paths exits 1 with the
\* "No entries found" message and no report; when every entry has a path
\* the report has one row per entry; check never changes the state file.
C11_CheckAbortsOrReportsAll ==
    [][CommandStep("check") /\ fileExists /\ DOMAIN entries # {}
       => /\ entries' = entries
          /\ fileExists' = fileExists
          /\ ~last'.wrote
          /\ IF \E id \in DOMAIN entries : entries[id].paths = <<>>
             THEN last'.code = 1 /\ last'.out = EmptyStore /\ last'.report = <<>>
             ELSE /\ last'.code = 0
                  /\ Len(last'.report) = Cardinality(DOMAIN entries)
                  /\ {last'.report[i].id : i \in 1..Len(last'.report)} = DOMAIN entries
                  /\ \A i \in 1..Len(last'.report) :
                        last'.report[i].paths = entries[last'.report[i].id].paths]_vars

C11_Witness ==
    /\ last.cmd = "check"
    /\ last.code = 1
    /\ last.out = EmptyStore
    /\ last.report = <<>>
    /\ Cardinality(DOMAIN entries) = 2
    /\ entries[sorted(DOMAIN entries)[1]].paths # <<>>
    /\ entries[sorted(DOMAIN entries)[2]].paths = <<>>

\* C12: rm(id, path) on an id of the store whose paths do not hold the
\* path's string fails with NoPathsToRemove when the paths are empty and
\* with PathNotInEntry when they are not; rm on an id that is not in the
\* store fails with EntryNotFound; the store is unchanged each time.
C12_RmErrors ==
    [][CommandStep("rm") /\ fileExists
       => /\ last'.doc \notin DOMAIN entries
             => last'.code = 1 /\ last'.out = EntryNotFound /\ entries' = entries
          /\ ( /\ last'.doc \in DOMAIN entries
               /\ last'.path # NoPath
               /\ as_posix(Path(last'.path)) \notin Range(entries[last'.doc].paths) )
             => /\ last'.code = 1
                /\ entries' = entries
                /\ last'.out = (IF entries[last'.doc].paths = <<>>
                                THEN NoPathsToRemove ELSE PathNotInEntry)
          /\ ( /\ last'.doc \in DOMAIN entries
               /\ entries[last'.doc].paths = <<>>
               /\ last'.code = 0 )
             => last'.path = NoPath]_vars

C12_Witness ==
    /\ last.cmd = "rm"
    /\ last.code = 1
    /\ last.out = NoPathsToRemove
    /\ last.path # NoPath
    /\ last.doc \in DOMAIN entries
    /\ entries[last.doc].paths = <<>>

\* C13: every entry of the store has a non-empty document_name.
C13_NameNotEmpty ==
    \A id \in DOMAIN entries : entries[id].document_name # <<>>

\* C14: init fails with AlreadyInitialized when sdt.json exists and with
\* NotARepository when there is no .git, writing nothing; otherwise it
\* writes the empty store. A state file that exists stays and is never
\* reset by a later init.
C14_InitOnce ==
    [][/\ CommandStep("init")
          => IF fileExists
             THEN /\ last'.code = 1 /\ last'.out = AlreadyInitialized
                  /\ fileExists' /\ entries' = entries /\ ~last'.wrote
             ELSE IF ~isRepo
             THEN /\ last'.code = 1 /\ last'.out = NotARepository
                  /\ ~fileExists' /\ entries' = entries /\ ~last'.wrote
             ELSE /\ last'.code = 0 /\ fileExists' /\ DOMAIN entries' = {}
                  /\ last'.wrote
       /\ fileExists => fileExists']_vars

C14_Witness ==
    /\ last.cmd = "init"
    /\ last.code = 1
    /\ last.out = AlreadyInitialized
    /\ fileExists
    /\ Cardinality(DOMAIN entries) = 2

\* C15: add, ls, rm, check and update without a state file exit 1 with
\* StoreNotFound and do not create it; the file comes into existence only
\* by an init that succeeds.
C15_StoreNotFound ==
    [][/\ ( /\ ~fileExists
            /\ \E cmd \in {"add", "ls", "rm", "check", "update"} : CommandStep(cmd) )
          => last'.code = 1 /\ last'.out = StoreNotFound /\ ~fileExists' /\ ~last'.wrote
       /\ (~fileExists /\ fileExists')
          => last'.cmd = "init" /\ last'.code = 0]_vars

C15_Witness ==
    /\ last.cmd = "add"
    /\ last.code = 1
    /\ last.out = StoreNotFound
    /\ ~fileExists
    /\ isRepo

\* C16: ls fails with EmptyStore exactly when the store has no entry,
\* otherwise it shows all entries; it never changes the state file, and an
\* ls that follows an ls shows what the first showed.
C16_LsReadOnly ==
    [][CommandStep("ls") /\ fileExists
       => /\ entries' = entries
          /\ fileExists' = fileExists
          /\ ~last'.wrote
          /\ IF DOMAIN entries = {}
             THEN last'.code = 1 /\ last'.out = EmptyStore
             ELSE last'.code = 0 /\ last'.report = entries
          /\ last.cmd = "ls" => last' = last]_vars

C16_Witness ==
    /\ last.cmd = "ls"
    /\ last.code = 0
    /\ last.report = entries
    /\ Cardinality(DOMAIN entries) = 2
    /\ \E id \in DOMAIN entries : entries[id].paths = <<>>

\* C17: no entry holds the same path string twice; after a successful
\* rm(id, path) the string is no longer among the entry's paths and the same
\* rm again fails with PathNotInEntry or NoPathsToRemove, store unchanged.
C17_NoStringTwice ==
    /\ \A id \in DOMAIN entries :
          Cardinality(Range(entries[id].paths)) = Len(entries[id].paths)
    /\ (last.cmd = "rm" /\ last.code = 0 /\ last.path # NoPath)
       => /\ as_posix(Path(last.path)) \notin Range(entries[last.doc].paths)
          /\ LET again == rm(fileExists, entries, last.doc, last.path) IN
             /\ again.code = 1
             /\ again.out \in {PathNotInEntry, NoPathsToRemove}
             /\ again.entries = entries

C17_Witness ==
    /\ last.cmd = "rm"
    /\ last.code = 0
    /\ last.path # NoPath
    /\ last.path = <<".", "file.txt">>
    /\ Len(entries[last.doc].paths) = 2

\* the orders in which the strings of a list can be taken
Orders(list) ==
    {o \in [1..Len(list) -> 1..Len(list)] :
        \A i, j \in 1..Len(list) : i # j => o[i] # o[j]}

\* the store after sdt rm id --path p for the strings p of the list in
\* turn, as long as each of them succeeds
RECURSIVE RmEach(_, _, _)
RmEach(ents, id, list) ==
    IF list = <<>> THEN [ok |-> TRUE, entries |-> ents]
    ELSE LET r == rm_command(tree, fileExists, ents, id, Head(list)) IN
         IF r.code # 0 THEN [ok |-> FALSE, entries |-> ents]
         ELSE RmEach(r.entries, id, Tail(list))

\* C18: in every reachable store every entry can be taken out by commands
\* that all succeed: rm(id, p) for each of its path strings, in any order,
\* then rm(id).
C18_EveryEntryRemovable ==
    \A id \in DOMAIN entries :
        LET paths == entries[id].paths IN
        \A o \in Orders(paths) :
            LET each == RmEach(entries, id, [i \in 1..Len(paths) |-> paths[o[i]]])
                final == rm_command(tree, fileExists, each.entries, id, NoPath)
            IN  /\ each.ok
                /\ final.code = 0
                /\ final.entries = [k \in DOMAIN entries \ {id} |-> entries[k]]

====
